---- MODULE Spec2Model ----
(***************************************************************************)
(* A model of rgispy/sample.py: the datastream decoder (headDS, recordDS,  *)
(* n_records, iter_ds), the byte source resolver (get_true_datastream,     *)
(* gdbc_to_ds_buffer), the mask table builder (get_masks) and the samplers *)
(* (iter_gdbc, sample_ds, sample_gdbc).                                    *)
(*                                                                         *)
(* A call is a record `call` of a function name and its arguments; `ret`   *)
(* is what the call has returned or raised.  The generator functions are   *)
(* state machines over pc/day/pos/...: one action per resumption.          *)
(***************************************************************************)
EXTENDS Integers, Sequences, FiniteSets, TLC

VARIABLES
    call,      \* the function called and its arguments
    ret,       \* [st |-> "pending"] | [st |-> "returned", val] | [st |-> "raised", exc]
    stream,    \* the content of the byte source: [Type, Items, NoData, missAt, res, srcLen]
    pc,        \* position of the generator / sampler
    day,       \* iter_ds: the loop variable `day`
    pos,       \* bytes consumed from the byte source so far
    src,       \* the byte source: "none" (not created), "open" or "closed" when the
               \* call created it, "borrowed" when the caller passed it in
    frame,     \* iter_ds's locals: nRecords, rgisType, npType, NoData, Date, Cells
    yields,    \* number of (Data, Date) pairs yielded so far
    out,       \* the pair yielded last: [Data, Date] (<<>> before the first)
    tables,    \* sample_ds: per table object, the number of column assignments
    csv        \* sample_ds: the layers whose CSV file has been written, in order

vars == <<call, ret, stream, pc, day, pos, src, frame, yields, out, tables, csv>>

----------------------------------------------------------------------------
(* Bounds of the model.                                                    *)

\* the years tried for n_records are 1896 .. 1896 + YearSpan, and the
\* century years 2000, 2100, 2200, 2300, 2400
YearSpan == 16
\* a record holds 1 .. MaxItems values
MaxItems == 2
\* a file name has 1 .. MaxSegs dot-separated segments
MaxSegs == 4
\* get_masks is tried on lists of 0 .. MaxLayers mask layers
MaxLayers == 3
\* the identifier grid has GridCells cells
GridCells == 2

----------------------------------------------------------------------------
(* Values.                                                                 *)

\* np.nan, as a value no identifier and no record value takes
NaN == -1

Pending == [st |-> "pending"]
Returned(v) == [st |-> "returned", val |-> v]
Raised(e) == [st |-> "raised", exc |-> e]

\* str.lower(), on the spellings tried
lower(s) ==
    CASE s = "Annual" -> "annual"
      [] s = "ANNUAL" -> "annual"
      [] s = "Monthly" -> "monthly"
      [] s = "MONTHLY" -> "monthly"
      [] s = "Daily" -> "daily"
      [] s = "DAILY" -> "daily"
      [] s = "Weekly" -> "weekly"
      [] OTHER -> s

\* pandas Period.is_leap_year: the proleptic Gregorian rule
is_leap_year(year) ==
    (year % 4 = 0) /\ ((year % 100 # 0) \/ (year % 400 = 0))

n_records_every4(year, time_step) ==
    LET ts == lower(time_step) IN
    IF ts \notin {"annual", "monthly", "daily"} THEN Raised("AssertionError")
    ELSE IF ts = "annual" THEN Returned(1)
    ELSE IF ts = "monthly" THEN Returned(12)
    ELSE IF year % 4 = 0 THEN Returned(366) ELSE Returned(365)

\* n_records(year, time_step): the value returned, or the assertion failing
n_records(year, time_step) ==
    LET ts == lower(time_step) IN
    IF ts \notin {"annual", "monthly", "daily"} THEN Raised("AssertionError")
    ELSE IF ts = "annual" THEN Returned(1)
    ELSE IF ts = "monthly" THEN Returned(12)
    ELSE IF is_leap_year(year) THEN Returned(366) ELSE Returned(365)

----------------------------------------------------------------------------
(* get_true_datastream.  A file name is the sequence of its dot-separated  *)
(* segments: <<"a", "ds", "gz">> is "a.ds.gz", <<"", "ds">> is ".ds".      *)

\* file_name.split(".", 1)[-1]: what follows the first dot, or the whole
\* name when it holds no dot
extension(file_name) ==
    IF Len(file_name) = 1 THEN file_name ELSE Tail(file_name)

\* _is_compressed(file_name): TRUE, FALSE, or the assertion failing
_is_compressed(file_name) ==
    LET ext == extension(file_name) IN
    IF ext \notin {<<"gds", "gz">>, <<"ds", "gz">>, <<"gds">>, <<"ds">>}
    THEN Raised("AssertionError")
    ELSE Returned(ext \in {<<"gds", "gz">>, <<"ds", "gz">>})

\* get_true_datastream(file_in).  file_in is a path ([kind |-> "path", name]),
\* an open file object with a file name ([kind |-> "file", name]), a pipe,
\* whose name is a file descriptor number ([kind |-> "pipe"]), or stdin
\* ([kind |-> "stdin", buffer]: whether it has a .buffer).
\* Returns the reader (gzip: a new decompressing reader, raw: a new binary
\* reader, same: file_in itself, buffer: file_in.buffer), whether a file was
\* opened and whether file_in was closed.
get_true_datastream(file_in) ==
    IF file_in.kind = "path" THEN
        LET c == _is_compressed(file_in.name) IN
        IF c.st = "raised" THEN c
        ELSE IF c.val
        THEN Returned([reader |-> "gzip", opened |-> TRUE, closedArg |-> FALSE])
        ELSE Returned([reader |-> "raw", opened |-> TRUE, closedArg |-> FALSE])
    ELSE IF file_in.kind = "stdin" THEN
        IF file_in.buffer
        THEN Returned([reader |-> "buffer", opened |-> FALSE, closedArg |-> FALSE])
        ELSE Returned([reader |-> "same", opened |-> FALSE, closedArg |-> FALSE])
    ELSE IF file_in.kind = "pipe" THEN
        \* Path(<int>) raises TypeError
        Returned([reader |-> "same", opened |-> FALSE, closedArg |-> FALSE])
    ELSE
        LET c == _is_compressed(file_in.name) IN
        IF c.st = "raised" THEN c
        ELSE IF c.val
        THEN Returned([reader |-> "gzip", opened |-> TRUE, closedArg |-> TRUE])
        ELSE Returned([reader |-> "same", opened |-> FALSE, closedArg |-> FALSE])

----------------------------------------------------------------------------
(* get_masks.  A mask layer is [Type, shape]: its Type attribute and the   *)
(* number of cells of its grid.  A table (DataFrame) object is named by    *)
(* the index of the layer it was created for; 0 is the unbound dfOut.      *)

RECURSIVE get_masks_loop(_, _, _, _)
get_masks_loop(mask_layers, m, dfOut, masks) ==
    IF m > Len(mask_layers) THEN Returned(masks)
    ELSE
        LET MaskType == mask_layers[m].Type
            df == IF MaskType \in {"Polygon", "Point"} THEN m ELSE dfOut
        IN  IF df = 0 THEN Raised("UnboundLocalError")
            ELSE get_masks_loop(mask_layers, m + 1, df,
                    Append(masks, [m |-> m, MaskType |-> MaskType,
                                   shape |-> mask_layers[m].shape, dfOut |-> df]))

\* get_masks(mask_ds, mask_layers, ...): the list of (m, Mask, MaskType,
\* MaskValues, OutputPath, dfOut) entries, or the exception raised
get_masks(mask_layers) == get_masks_loop(mask_layers, 1, 0, <<>>)

----------------------------------------------------------------------------
(* The byte source.  It holds records back to back, each a 40-byte header  *)
(* and Items values of the header's type, and ends after srcLen bytes.     *)
(* Record k (from 0) carries the k+1-th date of the period; its i-th value *)
(* is NoData when i = missAt and 10 * i + k otherwise.                     *)

\* sizeof(MFdsHeader): the bytes headDS reads
HeaderSize == 40

Min(a, b) == IF a < b THEN a ELSE b

\* _npType(nType): the numpy type of a GDBC type code
_npType(nType) ==
    IF nType = 5 THEN Returned("int16")
    ELSE IF nType = 6 THEN Returned("int32")
    ELSE IF nType = 7 THEN Returned("float32")
    ELSE IF nType = 8 THEN Returned("float64")
    ELSE Raised("Exception")

\* npType(1).itemsize
itemsize(npType) ==
    CASE npType = "int16" -> 2
      [] npType = "int32" -> 4
      [] npType = "float32" -> 4
      [] npType = "float64" -> 8

IsIntType(npType) == npType \in {"int16", "int32"}

\* the bytes of one record of the source, header included
RecSize(st) == HeaderSize + st.Items * itemsize(_npType(st.Type).val)

Value(st, k, i) == IF i = st.missAt THEN st.NoData ELSE 10 * i + k

\* ifile.read(n) at offset p: the number of bytes returned
read(st, p, n) == Min(n, st.srcLen - p)

\* the date format headDS parses with, named by the resolution it fits
date_format(time_step) ==
    IF time_step = "daily" THEN "daily"
    ELSE IF time_step = "monthly" THEN "monthly"
    ELSE "annual"

\* headDS(ifile, time_step) with the source at offset p: the offset after
\* the call and (Type, npType, NoData, Date, Items), or the exception raised
headDS(st, p, time_step) ==
    LET got == read(st, p, HeaderSize)
        p1 == p + got
        t == _npType(st.Type)
    IN  IF got < HeaderSize THEN [st |-> "raised", exc |-> "ValueError", pos |-> p1]
        ELSE IF t.st = "raised" THEN [st |-> "raised", exc |-> t.exc, pos |-> p1]
        ELSE IF p % RecSize(st) # 0 \/ date_format(time_step) # st.res
        THEN [st |-> "raised", exc |-> "ValueError", pos |-> p1]
        ELSE [st |-> "returned", pos |-> p1,
              val |-> [rgisType |-> st.Type, npType |-> t.val, NoData |-> st.NoData,
                       Date |-> (p \div RecSize(st)) + 1, Cells |-> st.Items]]

\* the values of the record that the payload at offset p belongs to, as far
\* as cnt values were read
Payload(st, p, cnt) ==
    LET k == p \div RecSize(st) IN [i \in 1..cnt |-> Value(st, k, i)]

recordDS_skipping(st, p, items, npType, skip) ==
    LET p0 == p + read(st, p, HeaderSize)
        bytes == items * itemsize(npType)
        got == read(st, p0, bytes)
    IN  IF got % itemsize(npType) # 0
        THEN [st |-> "raised", exc |-> "ValueError", pos |-> p0 + got]
        ELSE [st |-> "returned", pos |-> p0 + got,
              val |-> Payload(st, p0, got \div itemsize(npType))]

\* recordDS(ifile, items, npType, skip) with the source at offset p: the
\* offset after the call and the array read, or the exception raised
recordDS(st, p, items, npType, skip) ==
    LET p0 == IF skip THEN p + read(st, p, HeaderSize) ELSE p
        bytes == items * itemsize(npType)
        got == read(st, p0, bytes)
    IN  IF got % itemsize(npType) # 0
        THEN [st |-> "raised", exc |-> "ValueError", pos |-> p0 + got]
        ELSE [st |-> "returned", pos |-> p0 + got,
              val |-> Payload(st, p0, got \div itemsize(npType))]

\* np.nan_to_num(mask_id, nan=0.0).astype("int32"), flattened
cell_id(mask_id) == [c \in DOMAIN mask_id |-> IF mask_id[c] = NaN THEN 0 ELSE mask_id[c]]

\* The body of iter_ds's loop after the header: recordDS, the remapping and
\* the NoData substitution.  Gives the offset and the grid, or the exception.
remap(st, p, h, mask_id) ==
    LET rec == recordDS(st, p, h.Cells, h.npType, FALSE) IN
    IF rec.st = "raised" THEN rec
    ELSE
        LET Data0 == <<h.NoData>> \o rec.val       \* np.insert(Data, 0, NoData)
            ids == cell_id(mask_id)
        IN  IF \E c \in DOMAIN ids : ids[c] + 1 > Len(Data0)
            THEN [st |-> "raised", exc |-> "IndexError", pos |-> rec.pos]
            ELSE
                LET Data1 == [c \in DOMAIN ids |-> Data0[ids[c] + 1]]
                \* `_ = Data.astype("float")` leaves Data as it is: an integer
                \* array cannot hold np.nan
                IN  IF IsIntType(h.npType)
                    THEN [st |-> "raised", exc |-> "ValueError", pos |-> rec.pos]
                    ELSE [st |-> "returned", pos |-> rec.pos,
                          val |-> [c \in DOMAIN Data1 |->
                                     IF Data1[c] = h.NoData THEN NaN ELSE Data1[c]]]

----------------------------------------------------------------------------
(* iter_ds as a generator: what one resumption does.                       *)

\* One pass of the loop body for `day`, the header h already unpacked
iter_ds_body(st, c, p, d, h) ==
    LET r == remap(st, p, h, c.mask_id) IN
    IF r.st = "raised"
    THEN [kind |-> "raise", exc |-> r.exc, pos |-> r.pos, day |-> d, frame |-> h]
    ELSE [kind |-> "yield", pos |-> r.pos, day |-> d, frame |-> h,
          Data |-> r.val, Date |-> h.Date]

\* The first next(): from the top of iter_ds to the first yield
iter_ds_first(st, c, p) ==
    LET nR == n_records(c.year, c.time_step) IN
    IF nR.st = "raised"
    THEN [kind |-> "raise", exc |-> nR.exc, pos |-> p, day |-> 0, frame |-> <<>>]
    ELSE
        LET h == headDS(st, p, c.time_step) IN
        IF h.st = "raised"
        THEN [kind |-> "raise", exc |-> h.exc, pos |-> h.pos, day |-> 0, frame |-> <<>>]
        ELSE iter_ds_body(st, c, h.pos, 0,
                 [nRecords |-> nR.val] @@ h.val)

\* A later next(): from the yield of `day` d to the next yield or the end
iter_ds_resume(st, c, p, d, f) ==
    IF d + 1 >= f.nRecords
    THEN [kind |-> "stop", pos |-> p, day |-> d, frame |-> f]
    ELSE
        LET h == headDS(st, p, c.time_step) IN
        IF h.st = "raised"
        THEN [kind |-> "raise", exc |-> h.exc, pos |-> h.pos, day |-> d + 1, frame |-> f]
        ELSE iter_ds_body(st, c, h.pos, d + 1, [f EXCEPT !.Date = h.val.Date])

\* next() on the generator: started says whether it ran before
iter_ds_next(st, c, p, d, f, started) ==
    IF started THEN iter_ds_resume(st, c, p, d, f) ELSE iter_ds_first(st, c, p)

----------------------------------------------------------------------------
(* iter_gdbc, sample_ds, sample_gdbc.                                      *)

\* gdbc_to_ds_buffer(gdbc, network): Popen, and the state of p.stdout; the
\* launch fails when the rgis2ds executable is missing
gdbc_to_ds_buffer(c) ==
    IF c.launch THEN Returned("open") ELSE Raised("FileNotFoundError")

on_generator_exit_leaving_open(fn, s, p) == [src |-> s, pos |-> p]

\* GeneratorExit thrown into the generator at its yield: iter_gdbc's handler
\* closes file_buf, iter_ds has no handler.  Nothing is read.
on_generator_exit(fn, s, p) ==
    IF fn = "iter_gdbc" THEN [src |-> "closed", pos |-> p]
    ELSE [src |-> s, pos |-> p]

\* sample_ds's loop over the masks for one (Data, Date): the tables after it,
\* or those reached when an index fails (a layer's grid of another shape
\* than Data)
RECURSIVE sample_ds_layers(_, _, _, _)
sample_ds_layers(masks, i, tbl, ncells) ==
    IF i > Len(masks) THEN [st |-> "returned", tables |-> tbl]
    ELSE
        LET e == masks[i] IN
        IF e.MaskType \in {"Polygon", "Point"} /\ e.shape # ncells
        THEN [st |-> "raised", exc |-> "IndexError", tables |-> tbl]
        ELSE IF e.MaskType = "Polygon"
        THEN sample_ds_layers(masks, i + 1, [tbl EXCEPT ![e.dfOut] = @ + 2], ncells)
        ELSE IF e.MaskType = "Point"
        THEN sample_ds_layers(masks, i + 1, [tbl EXCEPT ![e.dfOut] = @ + 1], ncells)
        ELSE sample_ds_layers(masks, i + 1, tbl, ncells)

sample_ds_body_writing(masks, tbl, csvs, ncells) ==
    [csv |-> IF Len(csvs) < Len(masks) THEN Append(csvs, masks[Len(csvs) + 1].m) ELSE csvs]
        @@ sample_ds_layers(masks, 1, tbl, ncells)

\* The body of sample_ds's `for Data, Date in iter_ds(...)`: its effect on
\* the tables and on the CSV files written
sample_ds_body(masks, tbl, csvs, ncells) ==
    [csv |-> csvs] @@ sample_ds_layers(masks, 1, tbl, ncells)

\* "gdbn" in network.name.split(".", 1)[-1]
is_gdbn(network) == \E i \in DOMAIN extension(network) : extension(network)[i] = "gdbn"

IsGen == call.fn \in {"iter_ds", "iter_gdbc"}
IsSampler == call.fn \in {"sample_ds", "sample_gdbc"}

\* The consumer calls next() on iter_ds(...) or iter_gdbc(...)
GenNext ==
    /\ IsGen
    /\ pc \in {"start", "yielded"}
    /\ LET buf == IF pc = "start" /\ call.fn = "iter_gdbc"
                  THEN gdbc_to_ds_buffer(call) ELSE Returned(src)
       IN  IF buf.st = "raised"
           THEN /\ pc' = "failed"
                /\ ret' = buf
                /\ UNCHANGED <<src, pos, day, frame, yields, out>>
           ELSE LET r == iter_ds_next(stream, call, pos, day, frame, pc = "yielded") IN
                /\ src' = buf.val
                /\ pos' = r.pos
                /\ day' = r.day
                /\ frame' = r.frame
                /\ IF r.kind = "yield"
                   THEN /\ pc' = "yielded"
                        /\ yields' = yields + 1
                        /\ out' = [Data |-> r.Data, Date |-> r.Date]
                        /\ ret' = ret
                   ELSE /\ pc' = IF r.kind = "stop" THEN "done" ELSE "failed"
                        /\ ret' = IF r.kind = "stop" THEN Returned("StopIteration")
                                  ELSE Raised(r.exc)
                        /\ UNCHANGED <<yields, out>>
    /\ UNCHANGED <<call, stream, tables, csv>>

\* The consumer stops iterating and the generator is closed
GenClose ==
    /\ IsGen
    /\ pc \in {"start", "yielded"}
    /\ LET x == IF pc = "start" THEN [src |-> src, pos |-> pos]
                ELSE on_generator_exit(call.fn, src, pos)
       IN  /\ src' = x.src
           /\ pos' = x.pos
    /\ pc' = "closed"
    /\ UNCHANGED <<call, ret, stream, day, frame, yields, out, tables, csv>>

\* sample_ds / sample_gdbc up to the loop: the byte source and the masks
SampleStart ==
    /\ IsSampler
    /\ pc = "start"
    /\ UNCHANGED <<call, stream, day, pos, frame, yields, out, csv>>
    /\ IF call.fn = "sample_gdbc" /\ ~is_gdbn(call.network)
       THEN pc' = "failed" /\ ret' = Raised("AssertionError") /\ UNCHANGED <<src, tables>>
       ELSE
       LET ds == IF call.fn = "sample_gdbc" THEN gdbc_to_ds_buffer(call) ELSE Returned(src)
       IN  IF ds.st = "raised"
           THEN pc' = "failed" /\ ret' = ds /\ UNCHANGED <<src, tables>>
           ELSE
           LET file_buf == get_true_datastream(call.file_in) IN
           IF file_buf.st = "raised"
           THEN pc' = "failed" /\ ret' = file_buf /\ src' = ds.val /\ UNCHANGED tables
           ELSE
           LET masks == get_masks(call.mask_layers) IN
           /\ src' = IF file_buf.val.opened THEN "open" ELSE ds.val
           /\ IF masks.st = "raised"
              THEN pc' = "failed" /\ ret' = masks /\ UNCHANGED tables
              ELSE /\ pc' = "iterate"
                   /\ ret' = ret
                   /\ tables' = [o \in 1..Len(call.mask_layers) |-> 0]

\* One turn of sample_ds's for loop: next() on iter_ds, then the loop body
SampleStep ==
    /\ IsSampler
    /\ pc = "iterate"
    /\ LET r == iter_ds_next(stream, call, pos, day, frame, yields > 0)
           masks == get_masks(call.mask_layers).val
       IN  /\ pos' = r.pos
           /\ day' = r.day
           /\ frame' = r.frame
           /\ IF r.kind = "yield"
              THEN LET b == sample_ds_body(masks, tables, csv, Len(r.Data)) IN
                   /\ yields' = yields + 1
                   /\ out' = [Data |-> r.Data, Date |-> r.Date]
                   /\ tables' = b.tables
                   /\ csv' = b.csv
                   /\ pc' = IF b.st = "raised" THEN "failed" ELSE "iterate"
                   /\ ret' = IF b.st = "raised" THEN Raised(b.exc) ELSE ret
              ELSE /\ pc' = IF r.kind = "raise" THEN "failed"
                            ELSE IF Len(masks) = 0 THEN "done" ELSE "write"
                   /\ ret' = IF r.kind = "raise" THEN Raised(r.exc)
                             ELSE IF Len(masks) = 0 THEN Returned("None") ELSE ret
                   /\ UNCHANGED <<yields, out, tables, csv>>
    /\ UNCHANGED <<call, stream, src>>

\* One turn of sample_ds's last loop: dfOut.to_csv(...) for the next mask
SampleWrite ==
    /\ IsSampler
    /\ pc = "write"
    /\ LET masks == get_masks(call.mask_layers).val IN
       /\ csv' = Append(csv, masks[Len(csv) + 1].m)
       /\ pc' = IF Len(csv) + 1 = Len(masks) THEN "done" ELSE "write"
       /\ ret' = IF Len(csv) + 1 = Len(masks) THEN Returned("None") ELSE ret
    /\ UNCHANGED <<call, stream, day, pos, src, frame, yields, out, tables>>

NextGen == GenNext \/ GenClose

NextSample == SampleStart \/ SampleStep \/ SampleWrite

----------------------------------------------------------------------------
(* The pure functions, called once on an input.                            *)

Call_n_records ==
    /\ call.fn = "n_records"
    /\ pc = "start"
    /\ ret' = n_records(call.year, call.time_step)
    /\ pc' = "done"
    /\ UNCHANGED <<call, stream, day, pos, src, frame, yields, out, tables, csv>>

Call_get_true_datastream ==
    /\ call.fn = "get_true_datastream"
    /\ pc = "start"
    /\ ret' = get_true_datastream(call.file_in)
    /\ pc' = "done"
    /\ UNCHANGED <<call, stream, day, pos, src, frame, yields, out, tables, csv>>

Call_get_masks ==
    /\ call.fn = "get_masks"
    /\ pc = "start"
    /\ ret' = get_masks(call.mask_layers)
    /\ pc' = "done"
    /\ UNCHANGED <<call, stream, day, pos, src, frame, yields, out, tables, csv>>

----------------------------------------------------------------------------
(* The inputs tried.                                                       *)

NoStream == [Type |-> 0, Items |-> 0, NoData |-> 0, missAt |-> 0, res |-> "", srcLen |-> 0]

\* every variable but call, stream and src, before the call runs
Fresh ==
    /\ ret = Pending
    /\ pc = "start"
    /\ day = 0
    /\ pos = 0
    /\ frame = <<>>
    /\ yields = 0
    /\ out = <<>>
    /\ tables = <<>>
    /\ csv = <<>>

CountYears == (1896..(1896 + YearSpan)) \cup {2000, 2100, 2200, 2300, 2400}
TimeSteps == {"annual", "monthly", "daily", "Annual", "ANNUAL", "Monthly", "MONTHLY",
              "Daily", "DAILY", "weekly", "Weekly", "hourly", ""}

InitCount ==
    /\ Fresh
    /\ stream = NoStream
    /\ src = "none"
    /\ \E y \in CountYears, ts \in TimeSteps :
          call = [fn |-> "n_records", year |-> y, time_step |-> ts]

Segments == {"", "a", "ds", "gds", "gz", "csv"}
\* the names of files: not "", "." or ".."
FileNames ==
    (UNION {[1..n -> Segments] : n \in 1..MaxSegs}) \ {<<"">>, <<"", "">>, <<"", "", "">>}
FileIns ==
    {[kind |-> k, name |-> nm] : k \in {"path", "file"}, nm \in FileNames}
    \cup {[kind |-> "pipe"]}
    \cup {[kind |-> "stdin", buffer |-> b] : b \in BOOLEAN}

InitResolve ==
    /\ Fresh
    /\ stream = NoStream
    /\ src = "none"
    /\ \E f \in FileIns : call = [fn |-> "get_true_datastream", file_in |-> f]

MaskTypes == {"Point", "Polygon", "Line"}
Layers(shapes) == [Type : MaskTypes, shape : shapes]
LayerLists(shapes, n) == UNION {[1..k -> Layers(shapes)] : k \in 0..n}

InitMasks ==
    /\ Fresh
    /\ stream = NoStream
    /\ src = "none"
    /\ \E ls \in LayerLists({GridCells, GridCells + 1}, MaxLayers) :
          call = [fn |-> "get_masks", mask_layers |-> ls]

SpecCount == InitCount /\ [][Call_n_records]_vars
SpecResolve == InitResolve /\ [][Call_get_true_datastream]_vars
SpecMasks == InitMasks /\ [][Call_get_masks]_vars

IterYears == {2001, 2004}
Resolutions == {"annual", "monthly", "daily"}

\* the identifier grids, flattened: not-a-number, 0 or an identifier per cell
Masks == [1..GridCells -> {NaN, 0} \cup (1..MaxItems)]
\* two of them: <<nan, 1, ..>> and <<0, 1, 1, ..>>
FewMasks == {[c \in 1..GridCells |-> IF c = 1 THEN NaN ELSE 1],
             [c \in 1..GridCells |-> IF c = 1 THEN 0 ELSE 1]}

\* where a source of records of size rs ends, as (complete records, bytes of
\* a further one): early, in or after a header or a value, or around the n
\* records expected
Cuts(n, rs, isz) ==
    ({0, 1} \X {t \in {0, HeaderSize \div 2, HeaderSize, HeaderSize + 1, HeaderSize + isz} :
                  t < rs})
    \cup ({n - 1, n, n + 1} \X {0})

\* the sources of records of type t with `it` values each, dated at
\* resolution r, cut around n records
Streams(t, it, r, n) ==
    LET base == [Type |-> t, Items |-> it, NoData |-> -9999, missAt |-> 0,
                 res |-> r, srcLen |-> 0]
        rs == RecSize(base)
    IN  {[base EXCEPT !.missAt = m, !.srcLen = c[1] * rs + c[2]] :
            m \in {0, 1}, c \in Cuts(n, rs, itemsize(_npType(t).val))}

\* the record count of a resolution (1 for what n_records rejects)
Expected(y, ts) == LET n == n_records(y, ts) IN IF n.st = "returned" THEN n.val ELSE 1

GenCall(fn, y, ts, m, l) ==
    [fn |-> fn, year |-> y, time_step |-> ts, mask_id |-> m, launch |-> l]

InitGen ==
    /\ Fresh
    /\ \/ \* iter_ds over the annual and monthly sources, every grid
          \E y \in IterYears, ts \in {"annual", "monthly"}, t \in 5..8,
             it \in 1..MaxItems, m \in Masks :
             /\ call = GenCall("iter_ds", y, ts, m, TRUE)
             /\ stream \in Streams(t, it, ts, Expected(y, ts))
       \/ \* iter_ds and iter_gdbc over the daily sources
          \E fn \in {"iter_ds", "iter_gdbc"}, y \in IterYears, t \in 5..8, m \in FewMasks :
             /\ call = GenCall(fn, y, "daily", m, TRUE)
             /\ stream \in Streams(t, MaxItems, "daily", Expected(y, "daily"))
       \/ \* iter_gdbc over the annual and monthly sources, rgis2ds there or not
          \E y \in IterYears, ts \in {"annual", "monthly"}, t \in 5..8, m \in FewMasks,
             l \in BOOLEAN :
             /\ call = GenCall("iter_gdbc", y, ts, m, l)
             /\ stream \in Streams(t, MaxItems, ts, Expected(y, ts))
       \/ \* a resolution in another spelling, or not that of the source's dates
          \E y \in IterYears, ts \in Resolutions \cup {"Daily", "weekly"},
             r \in Resolutions, m \in FewMasks :
             /\ ts # r
             /\ call = GenCall("iter_ds", y, ts, m, TRUE)
             /\ stream \in Streams(7, MaxItems, r, Expected(y, ts))
       \/ \* an unknown type code
          \E y \in IterYears, ts \in Resolutions, m \in FewMasks :
             /\ call = GenCall("iter_ds", y, ts, m, TRUE)
             /\ stream = [Type |-> 3, Items |-> MaxItems, NoData |-> -9999, missAt |-> 0,
                          res |-> ts, srcLen |-> 2 * HeaderSize]
    /\ src = IF call.fn = "iter_ds" THEN "borrowed" ELSE "none"

SpecGen == InitGen /\ [][NextGen]_vars

SampleCall(fn, y, ts, m, f, ls, nw, l) ==
    [fn |-> fn, year |-> y, time_step |-> ts, mask_id |-> m, file_in |-> f,
     mask_layers |-> ls, network |-> nw, launch |-> l]

SampleFiles ==
    {[kind |-> "path", name |-> nm] : nm \in {<<"a", "ds">>, <<"a", "gds", "gz">>, <<"a", "csv">>}}
    \cup {[kind |-> "stdin", buffer |-> TRUE]}

\* the sources without a missing value
Whole(S) == {st \in S : st.missAt = 0}

InitSample ==
    /\ Fresh
    /\ \/ \* sample_ds over the annual and monthly sources, up to two layers
          \E y \in IterYears, ts \in {"annual", "monthly"}, t \in {6, 8}, m \in FewMasks,
             f \in SampleFiles, ls \in LayerLists({GridCells, GridCells + 1}, 2) :
             /\ call = SampleCall("sample_ds", y, ts, m, f, ls, <<>>, TRUE)
             /\ stream \in Whole(Streams(t, MaxItems, ts, Expected(y, ts)))
       \/ \* sample_ds over the daily sources
          \E y \in IterYears, m \in FewMasks,
             ls \in {<<[Type |-> "Point", shape |-> GridCells]>>,
                     <<[Type |-> "Polygon", shape |-> GridCells],
                       [Type |-> "Point", shape |-> GridCells]>>} :
             /\ call = SampleCall("sample_ds", y, "daily", m,
                                  [kind |-> "path", name |-> <<"a", "ds">>], ls, <<>>, TRUE)
             /\ stream \in Whole(Streams(8, MaxItems, "daily", Expected(y, "daily")))
       \/ \* sample_gdbc: the network's name, rgis2ds there or not, up to one layer
          \E y \in IterYears, ts \in {"annual", "monthly"}, t \in {6, 8}, m \in FewMasks,
             nw \in {<<"n", "gdbn">>, <<"n", "gdbn", "gz">>, <<"n", "gdbc">>},
             l \in BOOLEAN, ls \in LayerLists({GridCells, GridCells + 1}, 1) :
             /\ call = SampleCall("sample_gdbc", y, ts, m, [kind |-> "pipe"], ls, nw, l)
             /\ stream \in Whole(Streams(t, MaxItems, ts, Expected(y, ts)))
    /\ src = IF call.file_in.kind = "stdin" THEN "borrowed" ELSE "none"

SpecSample == InitSample /\ [][NextSample]_vars

----------------------------------------------------------------------------
(* The properties checked.                                                 *)

IsDone(fn) == call.fn = fn /\ pc = "done"

\* C2 (as claimed), under SpecCount: n_records(y, daily) is 366 exactly in
\* the leap years of the Gregorian rule and 365 otherwise, n_records(y, monthly)
\* is 12, n_records(y, annual) is 1, and for every resolution value that is
\* not one of "annual", "monthly", "daily" the call fails.
C2_AsClaimed ==
    IsDone("n_records") =>
        LET y == call.year
            ts == call.time_step
            leap == (y % 4 = 0) /\ ((y % 100 # 0) \/ (y % 400 = 0))
        IN  /\ ts = "daily" => ret = Returned(IF leap THEN 366 ELSE 365)
            /\ ts = "monthly" => ret = Returned(12)
            /\ ts = "annual" => ret = Returned(1)
            /\ ts \notin {"annual", "monthly", "daily"} => ret.st = "raised"

\* C2 (amended), under SpecCount: the same counts, for every resolution value
\* whose lower-case form is "daily", "monthly" or "annual"; the call fails
\* exactly for the values whose lower-case form is none of the three.
C2_Amended ==
    IsDone("n_records") =>
        LET y == call.year
            ts == call.time_step
            leap == (y % 4 = 0) /\ ((y % 100 # 0) \/ (y % 400 = 0))
        IN  /\ ts \in {"daily", "Daily", "DAILY"} => ret = Returned(IF leap THEN 366 ELSE 365)
            /\ ts \in {"monthly", "Monthly", "MONTHLY"} => ret = Returned(12)
            /\ ts \in {"annual", "Annual", "ANNUAL"} => ret = Returned(1)
            /\ ts \in {"weekly", "Weekly", "hourly", ""} => ret.st = "raised"

\* n_records("DAILY") has returned 365 for 1900, a century year that is no
\* leap year
C2_Witness ==
    /\ IsDone("n_records")
    /\ call.year = 1900
    /\ call.time_step = "DAILY"
    /\ ret = Returned(365)

\* the last Len(suffix) segments of a name of more segments: the name ends
\* in "." and the suffix
EndsIn(name, suffix) ==
    /\ Len(name) > Len(suffix)
    /\ SubSeq(name, Len(name) - Len(suffix) + 1, Len(name)) = suffix

\* C7, under SpecResolve: get_true_datastream on a path opens a decompressing
\* reader for every name ending in .gds.gz or .ds.gz, a raw binary reader for
\* every name ending in .gds or .ds, and fails, opening nothing, for every
\* other name.
C7_AsClaimed ==
    (IsDone("get_true_datastream") /\ call.file_in.kind = "path") =>
        LET name == call.file_in.name IN
        IF EndsIn(name, <<"gds", "gz">>) \/ EndsIn(name, <<"ds", "gz">>)
        THEN ret.st = "returned" /\ ret.val.reader = "gzip"
        ELSE IF EndsIn(name, <<"gds">>) \/ EndsIn(name, <<"ds">>)
        THEN ret.st = "returned" /\ ret.val.reader = "raw"
        ELSE ret.st = "raised"

\* C8, under SpecMasks: get_masks fails for every list holding a layer whose
\* Type is neither "Point" nor "Polygon", and no two entries it returns share
\* a table object.
C8_AsClaimed ==
    IsDone("get_masks") =>
        /\ (\E i \in DOMAIN call.mask_layers :
                call.mask_layers[i].Type \notin {"Point", "Polygon"}) => ret.st = "raised"
        /\ ret.st = "returned" =>
                \A i, j \in DOMAIN ret.val : i # j => ret.val[i].dfOut # ret.val[j].dfOut

\* The source is well formed for the call: the resolution is a recognized
\* one and that of the source's dates, the type code is known, the grid names
\* no identifier beyond the record's values, and the source holds the
\* records expected.
WellFormed ==
    /\ call.time_step \in Resolutions
    /\ stream.res = call.time_step
    /\ stream.Type \in 5..8
    /\ \A c \in DOMAIN call.mask_id : call.mask_id[c] <= stream.Items
    /\ stream.srcLen >= Expected(call.year, call.time_step) * RecSize(stream)

\* C1, under SpecGen: over a well-formed source, iter_ds yields exactly
\* n_records(year, time_step) pairs and then ends: it does not fail, never
\* yields more, and has yielded that many when it ends.
C1_AsClaimed ==
    (call.fn = "iter_ds" /\ WellFormed) =>
        /\ pc # "failed"
        /\ yields <= Expected(call.year, call.time_step)
        /\ pc = "done" => yields = Expected(call.year, call.time_step)

\* the value a cell of the grid yielded with record k (from 0) should hold
Cell(k, id) ==
    IF id = NaN \/ id = 0 THEN NaN
    ELSE IF Value(stream, k, id) = stream.NoData THEN NaN
    ELSE Value(stream, k, id)

\* C3, under SpecGen: for every type code in 5..8, every record of a
\* well-formed source is yielded (for the integer types too, after an upcast
\* to floating point), and each cell of the grid yielded is not-a-number when
\* its identifier is 0 or not-a-number or its value is the missing value, and
\* the record's value at (identifier - 1) otherwise.
C3_AsClaimed ==
    (call.fn = "iter_ds" /\ WellFormed) =>
        /\ pc # "failed"
        /\ pc = "yielded" =>
              \A c \in DOMAIN call.mask_id :
                  out.Data[c] = Cell(yields - 1, call.mask_id[c])

\* C4, under SpecGen: closing iter_gdbc's generator at a yield closes the
\* pipe of the rgis2ds process, and reads nothing more from it.
C4_Holds ==
    [][(call.fn = "iter_gdbc" /\ pc = "yielded" /\ pc' = "closed")
          => (src' = "closed" /\ pos' = pos)]_vars

\* iter_gdbc closed after 1 of 365 records, one record read from the pipe
C4_Witness ==
    /\ call.fn = "iter_gdbc"
    /\ pc = "closed"
    /\ yields = 1
    /\ frame.nRecords = 365
    /\ pos = RecSize(stream)
    /\ stream.srcLen >= 365 * RecSize(stream)
    /\ src = "closed"

\* C5, under SpecGen: when iter_gdbc, sample_ds or sample_gdbc has finished
\* (exhausted, closed early or failed), a byte source it created is closed.
C5_AsClaimed ==
    (call.fn \in {"iter_gdbc", "sample_ds", "sample_gdbc"}
        /\ pc \in {"done", "closed", "failed"} /\ src \notin {"none", "borrowed"})
    => src = "closed"

\* C6, under SpecSample: a CSV file is written only after iter_ds has yielded
\* every record, and none is written when sample_ds fails.
C6_Holds ==
    /\ csv # <<>> => (pc \in {"write", "done"} /\ yields = frame.nRecords)
    /\ pc = "failed" => csv = <<>>

\* sample_ds with two layers has failed after a record, no CSV file written
C6_Witness ==
    /\ IsSampler
    /\ pc = "failed"
    /\ yields >= 1
    /\ Len(call.mask_layers) = 2
    /\ \A o \in DOMAIN tables : tables[o] >= 1
    /\ csv = <<>>

\* C9, under SpecGen: iter_ds yields no grid built from a record that the
\* source holds in part only: it fails at that record.
C9_AsClaimed ==
    (IsGen /\ pc = "yielded") => stream.srcLen >= yields * RecSize(stream)

\* C10, under SpecGen: over a well-formed source, after the k-th yield
\* exactly k * (40 + itemCount * byteWidth) bytes have been consumed, and
\* the date yielded is that of the k-th header of the source.
C10_Holds ==
    (IsGen /\ WellFormed /\ pc = "yielded") =>
        /\ pos = yields * (HeaderSize + frame.Cells * itemsize(frame.npType))
        /\ out.Date = yields

\* the second record of a well-formed monthly source has been yielded
C10_Witness ==
    /\ IsGen
    /\ WellFormed
    /\ pc = "yielded"
    /\ yields = 2
    /\ call.time_step = "monthly"
    /\ pos = 2 * RecSize(stream)

====
